---- MODULE Spec2Model ----
(***************************************************************************)
(* CMCParser (demo_cmc_parser.py): the three-tier listing fetch            *)
(* (get_top_coins), the text-cleaning helpers (_clean_number,              *)
(* _clean_price, _clean_percent) and the CSV writer (save_to_csv).         *)
(*                                                                         *)
(* Python values are tagged records: PyNone, PyInt(n), PyStr(s), and       *)
(* floats as a decimal num * 10^-exp or one of the specials inf / nan.     *)
(* A dict is a TLA+ function whose DOMAIN is the dict's key set.  Text is  *)
(* a sequence of one-character strings.                                    *)
(***************************************************************************)
EXTENDS Integers, Sequences, FiniteSets, TLC

VARIABLES
    pc,          \* position of the get_top_coins call
    limit,       \* the argument of get_top_coins
    scripts,     \* the <script> blocks of the page the loop has read so far
    table,       \* what soup.find('table') found, once _parse_table ran
    coins,       \* the local `coins` of get_top_coins
    result,      \* the value get_top_coins returned
    requests,    \* the outbound HTTP requests issued, in order
    raised,      \* what raised inside the try block of lines 25-48, or "none"
    apiResp,     \* the response the secondary API gave
    uncaught,    \* an exception left get_top_coins
    text,        \* the argument of a cleaning helper
    cleaned,     \* the helper applied and the value it returned
    file,        \* the content of the CSV path
    fileBefore,  \* its content before the last save_to_csv call
    csvArg,      \* the records passed to the last save_to_csv call
    csvExc,      \* whether that call raised
    csvCalls     \* how many times save_to_csv has been called

fetchVars == <<pc, limit, scripts, table, coins, result, requests, raised, apiResp, uncaught>>
cleanVars == <<text, cleaned>>
csvVars == <<file, fileBefore, csvArg, csvExc, csvCalls>>
vars == <<fetchVars, cleanVars, csvVars>>

----------------------------------------------------------------------------
(* Bounds of the model *)

MaxLen == 3        \* longest text given to a cleaning helper

----------------------------------------------------------------------------
(* Python values *)

PyNone == [t |-> "None"]
PyInt(n) == [t |-> "int", v |-> n]
PyStr(s) == [t |-> "str", v |-> s]
PyFloat(num, exp) == [t |-> "float", k |-> "fin", num |-> num, exp |-> exp]
PyInf(sign) == [t |-> "float", k |-> "inf", num |-> sign, exp |-> 0]
PyNan == [t |-> "float", k |-> "nan", num |-> 0, exp |-> 0]

\* dict.get(key, default)
Get(d, key, default) == IF key \in DOMAIN d THEN d[key] ELSE default

----------------------------------------------------------------------------
(* Text *)

Digits == {"0", "1", "2", "3", "4", "5", "6", "7", "8", "9"}
Whitespace == {" "}

DigitVal(c) ==
    CASE c = "0" -> 0 [] c = "1" -> 1 [] c = "2" -> 2 [] c = "3" -> 3 [] c = "4" -> 4
      [] c = "5" -> 5 [] c = "6" -> 6 [] c = "7" -> 7 [] c = "8" -> 8 [] c = "9" -> 9

\* text.replace(ch, '')
Remove(s, ch) == LET Keep(c) == c # ch IN SelectSeq(s, Keep)

\* text.strip()
RECURSIVE LStrip(_)
LStrip(s) == IF s # <<>> /\ Head(s) \in Whitespace THEN LStrip(Tail(s)) ELSE s

RECURSIVE RStrip(_)
RStrip(s) ==
    IF s # <<>> /\ s[Len(s)] \in Whitespace THEN RStrip(SubSeq(s, 1, Len(s) - 1)) ELSE s

Strip(s) == RStrip(LStrip(s))

\* the value of a string of decimal digits
RECURSIVE DigitsToNat(_)
DigitsToNat(s) ==
    IF s = <<>> THEN 0 ELSE 10 * DigitsToNat(SubSeq(s, 1, Len(s) - 1)) + DigitVal(s[Len(s)])

IsDigit(c) == c \in Digits

\* int(s) for a string of characters that str.isdigit accepts: ValueError on ''
IntParse(s) ==
    IF s = <<>> THEN [ok |-> FALSE, v |-> PyNone] ELSE [ok |-> TRUE, v |-> PyInt(DigitsToNat(s))]

\* num * 10^-exp without trailing zeros in the fraction
RECURSIVE Normal(_, _)
Normal(num, exp) ==
    IF exp > 0 /\ num % 10 = 0 THEN Normal(num \div 10, exp - 1) ELSE PyFloat(num, exp)

\* float(s): surrounding whitespace, an optional sign, then inf / infinity /
\* nan or a decimal literal with at least one digit; ValueError otherwise.
\* (Exponents, underscores and upper case are outside the alphabet of Chars.)
FloatParse(s) ==
    LET t == Strip(s)
        signed == t # <<>> /\ t[1] \in {"+", "-"}
        sign == IF signed /\ t[1] = "-" THEN -1 ELSE 1
        body == IF signed THEN Tail(t) ELSE t
        dots == Len(SelectSeq(body, LAMBDA c : c = "."))
        digs == SelectSeq(body, IsDigit)
        dot == CHOOSE i \in 1..Len(body) : body[i] = "."
        exp == IF dots = 1 THEN Len(body) - dot ELSE 0
    IN  IF body \in {<<"i", "n", "f">>, <<"i", "n", "f", "i", "n", "i", "t", "y">>}
          THEN [ok |-> TRUE, v |-> PyInf(sign)]
        ELSE IF body = <<"n", "a", "n">>
          THEN [ok |-> TRUE, v |-> PyNan]
        ELSE IF /\ digs # <<>>
                /\ dots <= 1
                /\ \A i \in 1..Len(body) : body[i] \in Digits \cup {"."}
          THEN [ok |-> TRUE, v |-> Normal(sign * DigitsToNat(digs), exp)]
        ELSE [ok |-> FALSE, v |-> PyNone]

----------------------------------------------------------------------------
(* The cleaning helpers, lines 141-159 *)

_clean_number(s) ==
    LET r == IntParse(SelectSeq(s, IsDigit))
    IN  IF r.ok THEN r.v ELSE PyInt(0)

_clean_price(s) ==
    LET r == FloatParse(Strip(Remove(Remove(s, "$"), ",")))
    IN  IF r.ok THEN r.v ELSE PyFloat(0, 0)

_clean_percent(s) ==
    LET r == FloatParse(Strip(Remove(Remove(s, "%"), ",")))
    IN  IF r.ok THEN r.v ELSE PyFloat(0, 0)

\* the characters the texts of the model are made of
Chars == {"0", "7", ".", ",", "$", "%", "-", " ", "i", "n", "f", "a"}

RECURSIVE TextsOfLen(_)
TextsOfLen(n) ==
    IF n = 0 THEN {<<>>}
    ELSE {Append(s, c) : s \in TextsOfLen(n - 1), c \in Chars}

Texts == UNION {TextsOfLen(n) : n \in 0..MaxLen}

----------------------------------------------------------------------------
(* Bounds of the fetch *)

MaxLimit == 2      \* largest limit passed to get_top_coins
MaxScripts == 2    \* most <script> blocks on the page
MaxItems == 2      \* most items in one listings array
MaxRows == 3       \* most <tr> rows in the table, the header row included
MaxApi == 2        \* most items in the secondary API's list

Min(a, b) == IF a < b THEN a ELSE b

----------------------------------------------------------------------------
(* The documents the fetch reads.  An item, row or API item is named by   *)
(* its position and a shape: "ok" extracts, "fail" does not.  Positions   *)
(* alternate between the two ways of being ok and the two ways of failing *)
(* that the code distinguishes.                                           *)

Shapes == {"ok", "fail"}

RECURSIVE ShapeSeqsOfLen(_)
ShapeSeqsOfLen(n) ==
    IF n = 0 THEN {<<>>}
    ELSE {Append(s, x) : s \in ShapeSeqsOfLen(n - 1), x \in Shapes}

ShapeSeqs(max) == UNION {ShapeSeqsOfLen(n) : n \in 0..max}

Odd(i) == i % 2 = 1

Dict(d) == [t |-> "dict", d |-> d]
EmptyDict == Dict([k \in {} |-> PyNone])
PyList(l) == [t |-> "list", l |-> l]

CoinName(i) ==
    CASE i = 1 -> "Bitcoin" [] i = 2 -> "Ethereum" [] i = 3 -> "Tether" [] OTHER -> "Solana"

CoinSymbol(i) ==
    CASE i = 1 -> "BTC" [] i = 2 -> "ETH" [] i = 3 -> "USDT" [] OTHER -> "SOL"

\* The item at position i of a listings array (the JSON the page embeds).
\*   ok, odd i:    cmc_rank and a full USD quote
\*   ok, even i:   rank instead of cmc_rank, and no quote at all
\*   fail, odd i:  "quote" is JSON null, so quote.get raises AttributeError
\*   fail, even i: the item is a JSON string, not an object
Item(i, shape) ==
    CASE shape = "ok" /\ Odd(i) ->
           Dict([cmc_rank |-> PyInt(i), name |-> PyStr(CoinName(i)),
                 symbol |-> PyStr(CoinSymbol(i)),
                 circulating_supply |-> PyInt(1000 * i),
                 quote |-> Dict([USD |-> Dict([price |-> PyFloat(i, 0),
                                              percent_change_1h |-> PyFloat(i, 1),
                                              percent_change_24h |-> PyFloat(0 - i, 1),
                                              percent_change_7d |-> PyFloat(i, 2),
                                              market_cap |-> PyFloat(100 * i, 0),
                                              volume_24h |-> PyFloat(10 * i, 0)])])])
      [] shape = "ok" /\ ~Odd(i) ->
           Dict([rank |-> PyInt(i), name |-> PyStr(CoinName(i)),
                 symbol |-> PyStr(CoinSymbol(i))])
      [] shape = "fail" /\ Odd(i) ->
           Dict([cmc_rank |-> PyInt(i), name |-> PyStr(CoinName(i)), quote |-> PyNone])
      [] OTHER -> PyStr(CoinName(i))

Listing(shapes) == [i \in 1..Len(shapes) |-> Item(i, shapes[i])]

\* A <script> block of the page.
\*   plain:    no text, or no __NEXT_DATA__ marker           (line 33 false)
\*   nomatch:  the marker, but not the tag the pattern wants (line 37 false)
\*   badjson:  json.loads raises                             (line 38)
\*   badpath:  the JSON is not an object along the key path, or `data` is
\*             not sliceable: AttributeError / TypeError      (lines 39, 41)
\*   payload:  the key path leads to a list (a missing key gives [])
ScriptBlocks ==
    {[kind |-> k, listing |-> <<>>] : k \in {"plain", "nomatch", "badjson", "badpath"}}
      \cup {[kind |-> "payload", listing |-> s] : s \in ShapeSeqs(MaxItems)}

----------------------------------------------------------------------------
(* The structured-data path, lines 32-45 and 56-72 *)

\* bool(value) for the values `if coin:` sees: None is false, a record of
\* ten keys is true
Truthy(v) == v # PyNone

\* _parse_coin_data: `.get` on a value that is no dict raises AttributeError,
\* which the bare except turns into None
_parse_coin_data(item) ==
    LET q == Get(item.d, "quote", EmptyDict)
        usd == Get(q.d, "USD", EmptyDict)
    IN  IF q.t # "dict" THEN PyNone
        ELSE IF usd.t # "dict" THEN PyNone
        ELSE [rank |-> Get(item.d, "cmc_rank", Get(item.d, "rank", PyNone)),
              name |-> Get(item.d, "name", PyNone),
              symbol |-> Get(item.d, "symbol", PyNone),
              price |-> Get(usd.d, "price", PyNone),
              change_1h |-> Get(usd.d, "percent_change_1h", PyNone),
              change_24h |-> Get(usd.d, "percent_change_24h", PyNone),
              change_7d |-> Get(usd.d, "percent_change_7d", PyNone),
              market_cap |-> Get(usd.d, "market_cap", PyNone),
              volume_24h |-> Get(usd.d, "volume_24h", PyNone),
              circulating_supply |-> Get(item.d, "circulating_supply", PyNone)]

\* one pass of the loop body of lines 41-45 over items[from..], appending to acc
RECURSIVE ExtractFrom(_, _, _)
ExtractFrom(items, from, acc) ==
    IF from > Len(items) THEN acc
    ELSE LET item == items[from]
             coin == IF item.t = "dict" THEN _parse_coin_data(item) ELSE PyNone
         IN  ExtractFrom(items, from + 1,
                         IF item.t = "dict" /\ Truthy(coin) THEN Append(acc, coin) ELSE acc)

\* Variant of ExtractListings without the slice: every item of the payload.
ExtractListingsUncut(acc, listings, lim) == ExtractFrom(listings, 1, acc)

\* Variant of ExtractListings in which the first item that fails to extract
\* ends the batch.
RECURSIVE ExtractUntilFailure(_, _, _)
ExtractUntilFailure(items, from, acc) ==
    IF from > Len(items) THEN acc
    ELSE LET item == items[from]
             coin == IF item.t = "dict" THEN _parse_coin_data(item) ELSE PyNone
         IN  IF item.t = "dict" /\ Truthy(coin)
               THEN ExtractUntilFailure(items, from + 1, Append(acc, coin))
               ELSE acc

ExtractListingsAbort(acc, listings, lim) ==
    ExtractUntilFailure(SubSeq(listings, 1, Min(lim, Len(listings))), 1, acc)

\* `for item in listings[:limit]` of one payload, appending to the coins so far
ExtractListings(acc, listings, lim) ==
    ExtractFrom(SubSeq(listings, 1, Min(lim, Len(listings))), 1, acc)

----------------------------------------------------------------------------
(* The table path, lines 74-102 *)

DigitChar(i) ==
    CASE i = 0 -> "0" [] i = 1 -> "1" [] i = 2 -> "2" [] i = 3 -> "3" [] i = 4 -> "4"
      [] i = 5 -> "5" [] i = 6 -> "6" [] i = 7 -> "7" [] i = 8 -> "8" [] OTHER -> "9"

\* The <tr> at position i of the table (i = 1 is the first <tr>).
\*   ok, odd i:    eight <td>, the name cell has a second line and a
\*                 <p class="coin-item-symbol">
\*   ok, even i:   seven <td>, a one-line name cell
\*   fail, odd i:  three <td> (fewer than the seven line 85 asks for)
\*   fail, even i: seven <td> whose extraction raises inside the try of line 86
Row(i, shape) ==
    [ncells |-> IF shape = "fail" /\ Odd(i) THEN 3 ELSE IF Odd(i) THEN 8 ELSE 7,
     broken |-> shape = "fail" /\ ~Odd(i),
     rank |-> <<"#", DigitChar(i)>>,
     lines |-> IF Odd(i) THEN <<CoinName(i), CoinSymbol(i)>> ELSE <<CoinName(i)>>,
     symbolTag |-> Odd(i),
     price |-> <<"$", DigitChar(i), ",", "0", "0", "0", ".", "5", "0">>,
     change_24h |-> <<"-", DigitChar(i), ".", "2", "5", "%">>,
     change_7d |-> <<"+", DigitChar(i), "%">>,
     market_cap |-> <<"$", DigitChar(i), "0", ",", "0", "0", "0">>,
     volume_24h |-> <<"$", DigitChar(i), "B">>]

\* what soup.find('table') finds: no table, or its <tr> rows
NoTable == [present |-> FALSE, rows |-> <<>>]
TableOf(shapes) == [present |-> TRUE, rows |-> [i \in 1..Len(shapes) |-> Row(i, shapes[i])]]
Tables == {NoTable} \cup {TableOf(s) : s \in ShapeSeqs(MaxRows)}

\* the dict of lines 87-97; the conditional expression of lines 90-91 binds as
\* (tag or last line) if the cell text has a line break else ''
RowCoin(row) ==
    [rank |-> _clean_number(row.rank),
     name |-> PyStr(row.lines[1]),
     symbol |-> IF Len(row.lines) > 1
                  THEN (IF row.symbolTag THEN [t |-> "Tag", v |-> row.lines[Len(row.lines)]]
                        ELSE PyStr(row.lines[Len(row.lines)]))
                  ELSE PyStr(""),
     price |-> _clean_price(row.price),
     change_24h |-> _clean_percent(row.change_24h),
     change_7d |-> _clean_percent(row.change_7d),
     market_cap |-> _clean_price(row.market_cap),
     volume_24h |-> IF row.ncells > 7 THEN _clean_price(row.volume_24h) ELSE PyNone]

\* the loop of lines 83-100 over rows[from..]
RECURSIVE RowsFrom(_, _, _)
RowsFrom(rows, from, acc) ==
    IF from > Len(rows) THEN acc
    ELSE LET row == rows[from]
         IN  RowsFrom(rows, from + 1,
                      IF row.ncells >= 7 /\ ~row.broken THEN Append(acc, RowCoin(row)) ELSE acc)

\* Variant of RowSlice that keeps the first <tr>: find_all('tr')[:limit]
RowSliceWithHeader(rows, lim) == SubSeq(rows, 1, Min(lim, Len(rows)))

\* table.find_all('tr')[1:limit+1]
RowSlice(rows, lim) == SubSeq(rows, 2, Min(lim + 1, Len(rows)))

_parse_table(tb, lim) ==
    IF ~tb.present THEN <<>> ELSE RowsFrom(RowSlice(tb.rows, lim), 1, <<>>)

----------------------------------------------------------------------------
(* The secondary API, lines 104-139 *)

\* The item at position i of cryptoCurrencyList.
\*   ok, odd i:    one quote in "quotes"
\*   ok, even i:   no "quotes" key, so the default [{}] gives an empty quote
\*   fail, odd i:  "quotes" is [], so [0] raises IndexError
\*   fail, even i: the item is a JSON string, so item.get raises AttributeError
ApiItem(i, shape) ==
    CASE shape = "ok" /\ Odd(i) ->
           Dict([cmcRank |-> PyInt(i), name |-> PyStr(CoinName(i)),
                 symbol |-> PyStr(CoinSymbol(i)),
                 circulatingSupply |-> PyInt(500 * i),
                 quotes |-> PyList(<<Dict([price |-> PyFloat(2 * i, 0),
                                          percentChange1h |-> PyFloat(2 * i, 1),
                                          percentChange24h |-> PyFloat(0 - 2 * i, 1),
                                          percentChange7d |-> PyFloat(2 * i, 2),
                                          marketCap |-> PyFloat(200 * i, 0),
                                          volume24h |-> PyFloat(20 * i, 0)])>>)])
      [] shape = "ok" /\ ~Odd(i) ->
           Dict([cmcRank |-> PyInt(i), name |-> PyStr(CoinName(i)),
                 symbol |-> PyStr(CoinSymbol(i)), circulatingSupply |-> PyInt(500 * i)])
      [] shape = "fail" /\ Odd(i) ->
           Dict([cmcRank |-> PyInt(i), name |-> PyStr(CoinName(i)), quotes |-> PyList(<<>>)])
      [] OTHER -> PyStr(CoinName(i))

\* What the secondary request gives.
\*   neterr:   session.get raises                       (line 118)
\*   badjson:  response.json() raises                   (line 119)
\*   badpath:  the JSON is not an object along the path (line 121)
\*   list:     the path leads to a list (a missing key gives [])
ApiResponses ==
    {[kind |-> k, items |-> <<>>] : k \in {"neterr", "badjson", "badpath"}}
      \cup {[kind |-> "list", items |-> s] : s \in ShapeSeqs(MaxApi)}

ApiList(resp) == [i \in 1..Len(resp.items) |-> ApiItem(i, resp.items[i])]

\* whether lines 122-134 raise on this item
ApiItemRaises(item) ==
    \/ item.t # "dict"
    \/ Get(item.d, "quotes", PyList(<<EmptyDict>>)).l = <<>>

\* the dict of lines 123-134
ApiCoin(item) ==
    LET quote == Get(item.d, "quotes", PyList(<<EmptyDict>>)).l[1]
    IN  [rank |-> Get(item.d, "cmcRank", PyNone),
         name |-> Get(item.d, "name", PyNone),
         symbol |-> Get(item.d, "symbol", PyNone),
         price |-> Get(quote.d, "price", PyNone),
         change_1h |-> Get(quote.d, "percentChange1h", PyNone),
         change_24h |-> Get(quote.d, "percentChange24h", PyNone),
         change_7d |-> Get(quote.d, "percentChange7d", PyNone),
         market_cap |-> Get(quote.d, "marketCap", PyNone),
         volume_24h |-> Get(quote.d, "volume24h", PyNone),
         circulating_supply |-> Get(item.d, "circulatingSupply", PyNone)]

\* The loop of lines 121-134 over items[from..]: the coins appended, and
\* whether an item raised (which ends the loop).
RECURSIVE ApiLoop(_, _, _)
ApiLoop(items, from, acc) ==
    IF from > Len(items) THEN [coins |-> acc, exc |-> FALSE]
    ELSE IF ApiItemRaises(items[from]) THEN [coins |-> acc, exc |-> TRUE]
    ELSE ApiLoop(items, from + 1, Append(acc, ApiCoin(items[from])))

\* the try block of lines 106-134: `coins` as the block leaves it, and
\* whether it raised
ApiTry(resp) ==
    IF resp.kind # "list" THEN [coins |-> <<>>, exc |-> TRUE]
    ELSE ApiLoop(ApiList(resp), 1, <<>>)

\* Variant of _fetch_via_api without the except clause: what the block raises
\* leaves the function.
fetch_via_api_uncaught(lim, resp) ==
    [coins |-> ApiTry(resp).coins, escapes |-> ApiTry(resp).exc]

\* Variant of _fetch_via_api whose except clause resets coins to [].
fetch_via_api_reset(lim, resp) ==
    [coins |-> IF ApiTry(resp).exc THEN <<>> ELSE ApiTry(resp).coins, escapes |-> FALSE]

\* _fetch_via_api: `except Exception` (line 136) catches what the block
\* raises, and line 139 returns `coins` as the block left it.  `escapes`
\* says whether an exception leaves the function.
_fetch_via_api(lim, resp) ==
    [coins |-> ApiTry(resp).coins, escapes |-> FALSE]

----------------------------------------------------------------------------
(* save_to_csv, lines 171-179 *)

MaxRecs == 2       \* most records passed to save_to_csv
MaxCalls == 2      \* most calls of save_to_csv on the path

\* the keys of the dict literals of lines 59-70, 87-97 and 123-134, in the
\* order the literals list them (a dict keeps insertion order)
FieldOrder ==
    <<"rank", "name", "symbol", "price", "change_1h", "change_24h", "change_7d",
      "market_cap", "volume_24h", "circulating_supply">>

\* list(coin.keys())
Keys(coin) == SelectSeq(FieldOrder, LAMBDA k : k \in DOMAIN coin)

\* the text csv writes for a value: '' for None, str(value) otherwise
CsvCell(v) == IF v = PyNone THEN [t |-> "text", of |-> PyStr("")] ELSE [t |-> "text", of |-> v]

\* DictWriter._dict_to_list: a key outside fieldnames raises ValueError
\* (extrasaction='raise'), a missing key is written as restval ''
HasExtraKeys(coin, fieldnames) ==
    \E k \in DOMAIN coin : \A i \in 1..Len(fieldnames) : fieldnames[i] # k

CsvRow(coin, fieldnames) ==
    [i \in 1..Len(fieldnames) |-> CsvCell(Get(coin, fieldnames[i], PyNone))]

\* writer.writerows(coins) from coins[from..]: the lines of the file, and
\* whether a record raised
RECURSIVE WriteRows(_, _, _, _)
WriteRows(recs, from, fieldnames, lines) ==
    IF from > Len(recs) THEN [lines |-> lines, exc |-> FALSE]
    ELSE IF HasExtraKeys(recs[from], fieldnames) THEN [lines |-> lines, exc |-> TRUE]
    ELSE WriteRows(recs, from + 1, fieldnames, Append(lines, CsvRow(recs[from], fieldnames)))

NoFile == [exists |-> FALSE, lines |-> <<>>]

\* Variant of save_to_csv without the guard of lines 172-173: the file is
\* opened (and so truncated) and coins[0] raises IndexError on [].
save_to_csv_unguarded(recs, old) ==
    IF recs = <<>> THEN [file |-> [exists |-> TRUE, lines |-> <<>>], exc |-> TRUE]
    ELSE LET fieldnames == Keys(recs[1])
             w == WriteRows(recs, 1, fieldnames, <<fieldnames>>)
         IN  [file |-> [exists |-> TRUE, lines |-> w.lines], exc |-> w.exc]

\* save_to_csv(coins, filename) on a path that holds `old`: the file
\* afterwards and whether the call raised.  open(filename, 'w') truncates.
save_to_csv(recs, old) ==
    IF recs = <<>> THEN [file |-> old, exc |-> FALSE]
    ELSE LET fieldnames == Keys(recs[1])
             w == WriteRows(recs, 1, fieldnames, <<fieldnames>>)
         IN  [file |-> [exists |-> TRUE, lines |-> w.lines], exc |-> w.exc]

\* the records the model passes to save_to_csv: two of ten keys, one of eight
CsvRecords ==
    {_parse_coin_data(Item(1, "ok")), ApiCoin(ApiItem(2, "ok")), RowCoin(Row(3, "ok"))}

RECURSIVE RecSeqsOfLen(_)
RecSeqsOfLen(n) ==
    IF n = 0 THEN {<<>>}
    ELSE {Append(s, r) : s \in RecSeqsOfLen(n - 1), r \in CsvRecords}

RecSeqs == UNION {RecSeqsOfLen(n) : n \in 0..MaxRecs}

----------------------------------------------------------------------------
(* Initial states *)

NotRead == [t |-> "unread"]
NoResp == [kind |-> "none", items |-> <<>>]
NotCleaned == [fn |-> "none", v |-> PyNone]

FetchIdle ==
    /\ pc = "idle" /\ limit = 1 /\ scripts = <<>> /\ table = NotRead /\ coins = <<>>
    /\ result = <<>> /\ requests = <<>> /\ raised = "none" /\ apiResp = NoResp
    /\ uncaught = FALSE

CleanIdle == text = <<>> /\ cleaned = NotCleaned

CsvIdle ==
    file = NoFile /\ fileBefore = NoFile /\ csvArg = <<>> /\ csvExc = FALSE /\ csvCalls = 0

\* get_top_coins(limit) is called: line 23
Init ==
    /\ pc = "start"
    /\ limit \in 1..MaxLimit
    /\ scripts = <<>> /\ table = NotRead /\ coins = <<>> /\ result = <<>>
    /\ requests = <<>> /\ raised = "none" /\ apiResp = NoResp /\ uncaught = FALSE
    /\ CleanIdle /\ CsvIdle

----------------------------------------------------------------------------
(* get_top_coins, lines 22-54 *)

\* lines 26-30: the primary request; session.get or raise_for_status may raise
Download ==
    /\ pc = "start"
    /\ requests' = Append(requests, "primary")
    /\ \E outcome \in {"ok", "neterr", "httperr"} :
         IF outcome = "ok"
           THEN pc' = "scan" /\ raised' = raised
           ELSE pc' = "except" /\ raised' = outcome
    /\ UNCHANGED <<limit, scripts, table, coins, result, apiResp, uncaught>>
    /\ UNCHANGED <<cleanVars, csvVars>>

\* lines 32-45: one iteration of `for script in scripts`
ScanScript ==
    /\ pc = "scan"
    /\ Len(scripts) < MaxScripts
    /\ \E s \in ScriptBlocks :
         /\ scripts' = Append(scripts, s)
         /\ CASE s.kind \in {"plain", "nomatch"} ->
                   UNCHANGED <<pc, coins, raised>>
              [] s.kind \in {"badjson", "badpath"} ->
                   pc' = "except" /\ raised' = s.kind /\ UNCHANGED coins
              [] OTHER ->
                   /\ coins' = ExtractListings(coins, Listing(s.listing), limit)
                   /\ UNCHANGED <<pc, raised>>
    /\ UNCHANGED <<limit, table, result, requests, apiResp, uncaught>>
    /\ UNCHANGED <<cleanVars, csvVars>>

\* Variant of TableFallback that goes on to the secondary API when the table
\* gives nothing either.
TableFallbackThenApi ==
    /\ pc = "scan"
    /\ IF coins = <<>>
         THEN \E tb \in Tables :
                /\ table' = tb /\ coins' = _parse_table(tb, limit)
                /\ IF _parse_table(tb, limit) = <<>>
                     THEN pc' = "except" /\ UNCHANGED result
                     ELSE pc' = "done" /\ result' = coins'
         ELSE pc' = "done" /\ result' = coins /\ UNCHANGED <<table, coins>>
    /\ UNCHANGED <<limit, scripts, requests, raised, apiResp, uncaught>>
    /\ UNCHANGED <<cleanVars, csvVars>>

\* Variant of TableFallback that tops the payload records up from the table
\* whenever there are fewer than limit.
TableFallbackTopUp ==
    /\ pc = "scan"
    /\ IF Len(coins) < limit
         THEN \E tb \in Tables :
                table' = tb /\ coins' = coins \o _parse_table(tb, limit - Len(coins))
         ELSE UNCHANGED <<table, coins>>
    /\ result' = coins'
    /\ pc' = "done"
    /\ UNCHANGED <<limit, scripts, requests, raised, apiResp, uncaught>>
    /\ UNCHANGED <<cleanVars, csvVars>>

\* lines 47-48 and 54, after the last script:
\* `if not coins: coins = self._parse_table(soup, limit)`, then `return coins`
TableFallback ==
    /\ pc = "scan"
    /\ IF coins = <<>>
         THEN \E tb \in Tables : table' = tb /\ coins' = _parse_table(tb, limit)
         ELSE UNCHANGED <<table, coins>>
    /\ result' = coins'
    /\ pc' = "done"
    /\ UNCHANGED <<limit, scripts, requests, raised, apiResp, uncaught>>
    /\ UNCHANGED <<cleanVars, csvVars>>

\* lines 50-54: the except clause; `coins = self._fetch_via_api(limit)` issues
\* the secondary request (line 118) and replaces what the try block
\* collected, then `return coins`
ApiFallback ==
    /\ pc = "except"
    /\ requests' = Append(requests, "api")
    /\ \E resp \in ApiResponses :
         LET r == _fetch_via_api(limit, resp)
         IN  /\ apiResp' = resp
             /\ IF r.escapes
                  THEN uncaught' = TRUE /\ UNCHANGED <<coins, result>>
                  ELSE coins' = r.coins /\ result' = r.coins /\ UNCHANGED uncaught
    /\ pc' = "done"
    /\ UNCHANGED <<limit, scripts, table, raised>>
    /\ UNCHANGED <<cleanVars, csvVars>>

Next == Download \/ ScanScript \/ TableFallback \/ ApiFallback

Spec == Init /\ [][Next]_vars

----------------------------------------------------------------------------
(* The cleaning helpers applied to a text *)

InitClean == FetchIdle /\ CsvIdle /\ text \in Texts /\ cleaned = NotCleaned

CleanNumber ==
    /\ cleaned = NotCleaned
    /\ cleaned' = [fn |-> "_clean_number", v |-> _clean_number(text)]
    /\ UNCHANGED <<text, fetchVars, csvVars>>

CleanPrice ==
    /\ cleaned = NotCleaned
    /\ cleaned' = [fn |-> "_clean_price", v |-> _clean_price(text)]
    /\ UNCHANGED <<text, fetchVars, csvVars>>

CleanPercent ==
    /\ cleaned = NotCleaned
    /\ cleaned' = [fn |-> "_clean_percent", v |-> _clean_percent(text)]
    /\ UNCHANGED <<text, fetchVars, csvVars>>

NextClean == CleanNumber \/ CleanPrice \/ CleanPercent

SpecClean == InitClean /\ [][NextClean]_vars

----------------------------------------------------------------------------
(* save_to_csv called on a path, one call after another *)

InitCsv == FetchIdle /\ CleanIdle /\ CsvIdle

SaveToCsv ==
    /\ csvCalls < MaxCalls
    /\ csvCalls' = csvCalls + 1
    /\ \E recs \in RecSeqs :
        LET w == save_to_csv(recs, file)
        IN  /\ csvArg' = recs
            /\ fileBefore' = file
            /\ file' = w.file
            /\ csvExc' = w.exc
            /\ UNCHANGED <<fetchVars, cleanVars>>

NextCsv == SaveToCsv

SpecCsv == InitCsv /\ [][NextCsv]_vars

----------------------------------------------------------------------------
(* What the claims speak of, stated from the documents read *)

Keys10 == {FieldOrder[i] : i \in 1..Len(FieldOrder)}
Keys8 == Keys10 \ {"change_1h", "circulating_supply"}

\* the members of a finite set of integers, smallest first
RECURSIVE Ascending(_)
Ascending(S) ==
    IF S = {} THEN <<>>
    ELSE LET m == CHOOSE x \in S : \A y \in S : x <= y
         IN  <<m>> \o Ascending(S \ {m})

\* the record the listing item at position i stands for, when it is well formed
ItemRecord(i) ==
    IF Odd(i)
      THEN [rank |-> PyInt(i), name |-> PyStr(CoinName(i)), symbol |-> PyStr(CoinSymbol(i)),
            price |-> PyFloat(i, 0), change_1h |-> PyFloat(i, 1),
            change_24h |-> PyFloat(0 - i, 1), change_7d |-> PyFloat(i, 2),
            market_cap |-> PyFloat(100 * i, 0), volume_24h |-> PyFloat(10 * i, 0),
            circulating_supply |-> PyInt(1000 * i)]
      ELSE [rank |-> PyInt(i), name |-> PyStr(CoinName(i)), symbol |-> PyStr(CoinSymbol(i)),
            price |-> PyNone, change_1h |-> PyNone, change_24h |-> PyNone,
            change_7d |-> PyNone, market_cap |-> PyNone, volume_24h |-> PyNone,
            circulating_supply |-> PyNone]

\* the positions of one payload's batch (its first `limit` items) that extract
GoodItems(shapes) == {i \in 1..Min(limit, Len(shapes)) : shapes[i] = "ok"}

BatchRecords(shapes) ==
    LET idx == Ascending(GoodItems(shapes))
    IN  [k \in 1..Len(idx) |-> ItemRecord(idx[k])]

\* the records of the payload blocks scripts[1..j], block after block
RECURSIVE PayloadRecords(_)
PayloadRecords(j) ==
    IF j = 0 THEN <<>>
    ELSE PayloadRecords(j - 1)
           \o (IF scripts[j].kind = "payload" THEN BatchRecords(scripts[j].listing) ELSE <<>>)

\* the data rows of the table inside the limit (the first <tr> left out) that extract
GoodRows == {i \in 2..Min(limit + 1, Len(table.rows)) : table.rows[i].ncells >= 7 /\ ~table.rows[i].broken}

TableRecords ==
    LET idx == Ascending(GoodRows)
    IN  [k \in 1..Len(idx) |-> RowCoin(table.rows[idx[k]])]

Payloads == {j \in 1..Len(scripts) : scripts[j].kind = "payload"}
BlockRaised == \E j \in 1..Len(scripts) : scripts[j].kind \in {"badjson", "badpath"}
DownloadRaised == raised \in {"neterr", "httperr"}
PrimaryRaised == DownloadRaised \/ BlockRaised
Done == pc = "done"

\* the position of the first API item whose mapping raises (one past the
\* list when none does)
FirstApiFailure ==
    LET bad == {i \in 1..Len(apiResp.items) : apiResp.items[i] = "fail"}
    IN  IF bad = {} THEN Len(apiResp.items) + 1 ELSE CHOOSE i \in bad : \A k \in bad : i <= k

ApiPathRaised == apiResp.kind \in {"neterr", "badjson", "badpath"} \/ FirstApiFailure <= Len(apiResp.items)

----------------------------------------------------------------------------
(* The claims *)

\* C1: get_top_coins never raises: whatever the primary download, the two
\* parses and the secondary API do, no exception leaves the call, every state
\* short of the return has a next step, and what is returned is a sequence of
\* records.
C1_NeverRaises ==
    /\ ~uncaught
    /\ ~Done => ENABLED Next
    /\ Done => /\ DOMAIN result = 1..Len(result)
               /\ \A i \in 1..Len(result) : DOMAIN result[i] \in {Keys10, Keys8}

\* C1 witness: the download raised and the secondary request raised too, and
\* the call returned the empty sequence.
C1_Witness ==
    Done /\ DownloadRaised /\ apiResp.kind = "neterr" /\ result = <<>> /\ ~uncaught

\* C2: the returned sequence is never longer than limit.
C2_LengthAtMostLimit == Done => Len(result) <= limit

\* C3: the requests of a call are [primary] or [primary, api], the api request
\* is issued exactly when the primary fetch raised, and when both parses
\* complete and yield nothing there is no api request and the result is empty.
C3_RequestsAndFallback ==
    /\ requests \in {<<>>, <<"primary">>, <<"primary", "api">>}
    /\ Done => /\ requests # <<>>
               /\ (requests = <<"primary", "api">>) <=> PrimaryRaised
               /\ (~PrimaryRaised /\ PayloadRecords(Len(scripts)) = <<>>
                     /\ table # NotRead /\ TableRecords = <<>>)
                    => (requests = <<"primary">> /\ result = <<>>)

\* C3 witness: both parses completed with nothing to show, one request, no result.
C3_Witness ==
    /\ Done /\ ~PrimaryRaised /\ Payloads # {} /\ table # NotRead /\ table.present
    /\ Len(table.rows) >= 2 /\ requests = <<"primary">> /\ result = <<>>

OnePayload(j) ==
    /\ Payloads = {j}
    /\ \A i \in 1..Len(scripts[j].listing) : scripts[j].listing[i] = "ok"

FirstItemsInOrder(j) ==
    /\ Len(result) = Min(Len(scripts[j].listing), limit)
    /\ \A i \in 1..Len(result) : result[i] = ItemRecord(i)

\* C5 as claimed: one payload of n well-formed items and nothing raising gives
\* min(n, limit) records, record i from item i.
C5_OnePayloadFirstItems ==
    \A j \in 1..Len(scripts) :
        (Done /\ ~PrimaryRaised /\ OnePayload(j)) => FirstItemsInOrder(j)

\* C5 amended: the same for n >= 1 (with n = 0 the table path decides the
\* result).
C5_OnePayloadNonEmpty ==
    \A j \in 1..Len(scripts) :
        (Done /\ ~PrimaryRaised /\ OnePayload(j) /\ Len(scripts[j].listing) >= 1)
            => FirstItemsInOrder(j)

\* C5 witness: a payload of more items than limit, cut to the first limit.
C5_Witness ==
    \E j \in 1..Len(scripts) :
        /\ Done /\ ~PrimaryRaised /\ OnePayload(j)
        /\ Len(scripts[j].listing) > limit /\ Len(result) = limit

\* C6: when the structured-data path completes with no record, the table of
\* the page is parsed and the result is its valid rows among the first limit
\* data rows, first <tr> left out, each once and in order; when the
\* structured-data path has a record, the table is not parsed.  The page is
\* the one page of the call's single primary request.
C6_TableFallback ==
    Done =>
        /\ (table # NotRead) <=> (~PrimaryRaised /\ PayloadRecords(Len(scripts)) = <<>>)
        /\ table # NotRead => (result = TableRecords /\ requests = <<"primary">>)

\* C6 witness: no payload record, and two data rows of the table returned.
C6_Witness ==
    /\ Done /\ ~PrimaryRaised /\ table # NotRead /\ Len(result) >= 2
    /\ table.rows[1].ncells >= 7 /\ ~table.rows[1].broken

\* C7: an item or row that fails to extract is skipped alone: the others of
\* its batch are in the result in their order, and no api request follows.
C7_FailureSkipsOneItem ==
    (Done /\ ~PrimaryRaised) =>
        /\ raised = "none" /\ requests = <<"primary">>
        /\ table = NotRead => result = PayloadRecords(Len(scripts))
        /\ table # NotRead =>
             /\ Len(result) = Cardinality(GoodRows)
             /\ \A i \in GoodRows : \E k \in 1..Len(result) : result[k].rank = PyInt(i)
             /\ \A k \in 1..Len(result) : \A m \in 1..Len(result) :
                  k < m => result[k].rank.v < result[m].rank.v

\* C7 witness: the first item of a batch failed and the second is returned.
C7_Witness ==
    /\ Done /\ ~PrimaryRaised /\ limit >= 2 /\ Len(result) = 1
    /\ \E j \in Payloads : scripts[j].listing = <<"fail", "ok">>

\* C8: each cleaning helper returns its zero default on a text without digits.
C8_ZeroWithoutDigits ==
    (cleaned.fn # "none" /\ \A i \in 1..Len(text) : text[i] \notin Digits) =>
        cleaned.v = (IF cleaned.fn = "_clean_number" THEN PyInt(0) ELSE PyFloat(0, 0))

\* what save_to_csv leaves for a non-empty sequence: a header and a row per record
HeaderAndRows ==
    /\ file.exists
    /\ Len(file.lines) = 1 + Len(csvArg)
    /\ file.lines[1] = Keys(csvArg[1])
    /\ \A i \in 1..Len(csvArg) :
         /\ Len(file.lines[i + 1]) = Len(file.lines[1])
         /\ \A c \in 1..Len(file.lines[1]) :
              file.lines[i + 1][c] = CsvCell(Get(csvArg[i], file.lines[1][c], PyNone))

\* C9 as claimed: an empty sequence leaves the path as it was and does not
\* raise; a non-empty one leaves a header and a row per record.
C9_SaveCsv ==
    csvCalls > 0 =>
        IF csvArg = <<>> THEN ~csvExc /\ file = fileBefore
        ELSE ~csvExc /\ HeaderAndRows

\* no record has a key the first record lacks
KeysCovered == \A i \in 1..Len(csvArg) : DOMAIN csvArg[i] \subseteq DOMAIN csvArg[1]

\* C9 amended: the same, the second half for sequences in which no record has
\* a key outside the first record's keys.
C9_SaveCsvKeysCovered ==
    csvCalls > 0 =>
        IF csvArg = <<>> THEN ~csvExc /\ file = fileBefore
        ELSE KeysCovered => (~csvExc /\ HeaderAndRows)

\* C9 witness: a file of a header and two rows was written, and a later call
\* with no records left it as it was.
C9_Witness ==
    /\ csvCalls = 2 /\ csvArg = <<>> /\ ~csvExc
    /\ fileBefore.exists /\ Len(fileBefore.lines) = 3 /\ file = fileBefore

\* C10: the result comes from one path alone: after an exception it is the
\* secondary API's records and nothing collected before; otherwise the
\* payload records or, when there are none, the table's.  So every record has
\* the keys of the first (ten, or eight from the table) and save_to_csv's
\* header covers every row.
C10_OnePathOneKeySet ==
    Done =>
        /\ PrimaryRaised =>
             /\ Len(result) <= Len(apiResp.items)
             /\ \A i \in 1..Len(result) : result[i] = ApiCoin(ApiItem(i, "ok"))
        /\ (~PrimaryRaised /\ table = NotRead) =>
             \A i \in 1..Len(result) : DOMAIN result[i] = Keys10
        /\ (~PrimaryRaised /\ table # NotRead) =>
             \A i \in 1..Len(result) : DOMAIN result[i] = Keys8
        /\ \A i \in 1..Len(result) : DOMAIN result[i] = DOMAIN result[1]
        /\ ~save_to_csv(result, NoFile).exc

\* C10 witness: a payload gave a record, a later block raised, and the result
\* is the API's.
C10_Witness ==
    /\ Done /\ Len(scripts) = 2 /\ scripts[1].kind = "payload"
    /\ GoodItems(scripts[1].listing) # {} /\ raised = "badjson"
    /\ apiResp.kind = "list" /\ Len(result) = 2 /\ result[2].circulating_supply = PyInt(1000)

====
